---- MODULE Spec2Model ----
(***************************************************************************)
(* hoardify-api: the adaptive live poller (poll_current_playback), its     *)
(* re-arm step (_schedule_next_poll), the watchdog (ensure_poller_alive),   *)
(* the backfill job (poll_recently_played) and the idempotent play upsert   *)
(* (upsert_play), as a state machine.                                       *)
(*                                                                          *)
(* The jobs are asyncio coroutines: control can pass to another coroutine   *)
(* only at an await, so every action below is the code between two awaits.  *)
(***************************************************************************)
EXTENDS Integers, Sequences, FiniteSets, TLC

\* ---------------------------------------------------------------- bounds
\* Poll cycles and backfill runs begun in one behaviour.
MaxCycles == 3
\* Items in one recent-history page (the code asks for 50).
MaxHistory == 2

\* ------------------------------------------------------------ constants
TTL_BUFFER == 30
TTL_FLOOR == 60
MS_PER_SECOND == 1000
SECONDS_PER_MINUTE == 60
DEFAULT_INTERVAL == 1
BUSY_INTERVAL == 2

\* ---------------------------------------------------------- value domains
Tracks == {"A", "B"}
NoTrack == "none"
\* Timestamps, in seconds after 12:00:00: 12:00:05, 12:00:42, 12:01:05.
Times == {5, 42, 65}
NoTime == -1
OptFields == {"device_name", "device_type", "context_type", "context_uri",
              "shuffle_state"}
NoValue == "null"
NoOpts == [f \in OptFields |-> NoValue]

POLL_JOB_ID == "poll_current_playback"
Procs == {"sched", "manual"}

VARIABLES
    scheduler,  \* _scheduler is not None
    jobs,       \* the scheduler's job store: a sequence of [id, due]
    token,      \* a credential is cached
    cache,      \* redis: now_playing, svg (each [track, ttl]) and last_track
    plays,      \* the plays collection: a set of documents
    tracks,     \* the tracks collection: track_id -> [exists, listen_count]
    pc,         \* where each poll_current_playback coroutine stands
    local,      \* its local variables
    result,     \* the status record the last finished invocation returned
    rearm,      \* calls of _schedule_next_poll per invocation, and the last outcome
    bf,         \* where poll_recently_played stands, with its local variables
    reports,    \* what the current-playback call answered, in order
    cycles      \* job invocations started

vars == <<scheduler, jobs, token, cache, plays, tracks, pc, local, result,
          rearm, bf, reports, cycles>>

\* ------------------------------------------------------- pure functions

Max(a, b) == IF a >= b THEN a ELSE b

\* Mutant: rounds to the nearest minute instead of truncating.
RoundToMinute_Nearest(t) ==
    ((t + (SECONDS_PER_MINUTE \div 2)) \div SECONDS_PER_MINUTE)
        * SECONDS_PER_MINUTE

\* datetime.replace(second=0, microsecond=0)
RoundToMinute(t) == t - (t % SECONDS_PER_MINUTE)

\* Mutant: the remaining time without the buffer.
ttl_seconds_NoBuffer(duration_ms, progress_ms) ==
    Max((duration_ms - progress_ms) \div MS_PER_SECOND, TTL_FLOOR)

\* ttl_seconds = max((remaining_ms // 1000) + 30, 60)
ttl_seconds(duration_ms, progress_ms) ==
    Max(((duration_ms - progress_ms) \div MS_PER_SECOND) + TTL_BUFFER, TTL_FLOOR)

\* Mutant: the busy delay from the first request on.
next_interval_Inclusive(requests_made) ==
    IF requests_made >= 1 THEN BUSY_INTERVAL ELSE DEFAULT_INTERVAL

\* next_interval = 2.0 if requests_made > 1 else 1.0
next_interval(requests_made) ==
    IF requests_made > 1 THEN BUSY_INTERVAL ELSE DEFAULT_INTERVAL

\* ------------------------------------------------------------ job store

PollJobs(js) == SelectSeq(js, LAMBDA j : j.id = POLL_JOB_ID)

RemoveAt(s, i) == SubSeq(s, 1, i - 1) \o SubSeq(s, i + 1, Len(s))

\* Mutant: add_job without replace_existing appends a second job under the
\* same id.
add_job_NoReplace(js, job) ==
    js \o <<job>>

\* scheduler.add_job(..., id=job.id, replace_existing=True)
add_job(js, job) ==
    SelectSeq(js, LAMBDA j : j.id # job.id) \o <<job>>

\* scheduler.get_job(id)
get_job(js, id) == SelectSeq(js, LAMBDA j : j.id = id)

\* ------------------------------------------------------------ the stores

NoEntry == [track |-> NoTrack, ttl |-> 0]

\* cache_now_playing(redis_client, now_playing, ttl): the snapshot is stored
\* with its TTL; with None (NoEntry here) the key is deleted.
cache_now_playing(c, entry) == [c EXCEPT !.now_playing = entry]

\* cache_now_playing_svg(redis_client, svg, ttl)
cache_now_playing_svg(c, entry) == [c EXCEPT !.svg = entry]

\* redis_client.delete(key)
delete(c, key) ==
    [c EXCEPT ![key] = IF key = "last_track" THEN NoTrack ELSE NoEntry]

\* The filter of update_one: the documents with this key.
Matching(docs, track_id, rounded) ==
    {d \in docs : d.track_id = track_id /\ d.played_at_rounded = rounded}

\* played_at_rounded of the play, computed when the play does not carry it.
played_at_rounded_of(play) ==
    IF play.played_at_rounded = NoTime
    THEN RoundToMinute(play.played_at)
    ELSE play.played_at_rounded

\* Mutant: every optional field is set to what the play carries, null or not.
SetFields_Overwrite(old, play) == [f \in OptFields |-> play.opts[f]]

\* The $set part: optional fields only when the play carries them.
SetFields(old, play) ==
    [f \in OptFields |-> IF play.opts[f] # NoValue THEN play.opts[f] ELSE old[f]]

NewDoc(play) ==
    [track_id |-> play.track_id,
     played_at_rounded |-> played_at_rounded_of(play),
     played_at |-> play.played_at,
     opts |-> SetFields(NoOpts, play)]

\* Mutant: an insert_one in place of the keyed upsert.
upsert_play_AlwaysInsert(docs, play) == docs \cup {NewDoc(play)}

\* db.plays.update_one(filter_doc, update_doc, upsert=True): the collection after
\* the call.
upsert_play(docs, play) ==
    LET hit == Matching(docs, play.track_id, played_at_rounded_of(play)) IN
    IF hit = {}
    THEN docs \cup {NewDoc(play)}
    ELSE LET d == CHOOSE x \in hit : TRUE IN
         (docs \ {d}) \cup
             {[d EXCEPT !.played_at = play.played_at,
                        !.opts = SetFields(d.opts, play)]}

\* Mutant: every write is reported as an insert.
upsert_play_inserted_Always(docs, play) == TRUE

\* result.upserted_id is not None
upsert_play_inserted(docs, play) ==
    Matching(docs, play.track_id, played_at_rounded_of(play)) = {}

\* upsert_plays(db, plays): the ordered bulk_write of one UpdateOne per play;
\* the collection after the call.
RECURSIVE upsert_plays(_, _)
upsert_plays(docs, ps) ==
    IF ps = <<>> THEN docs
    ELSE upsert_plays(upsert_play(docs, Head(ps)), Tail(ps))

\* result.upserted_count
RECURSIVE upserted_count(_, _)
upserted_count(docs, ps) ==
    IF ps = <<>> THEN 0
    ELSE (IF upsert_play_inserted(docs, Head(ps)) THEN 1 ELSE 0)
         + upserted_count(upsert_play(docs, Head(ps)), Tail(ps))

\* result.modified_count: the operations that matched a document and changed
\* it.
RECURSIVE modified_count(_, _)
modified_count(docs, ps) ==
    IF ps = <<>> THEN 0
    ELSE (IF ~upsert_play_inserted(docs, Head(ps))
             /\ upsert_play(docs, Head(ps)) # docs THEN 1 ELSE 0)
         + modified_count(upsert_play(docs, Head(ps)), Tail(ps))

\* insert_play(db, play): the play log's insert, keyed like upsert_play.
insert_play(docs, play) == upsert_play(docs, play)

insert_play_was_new(docs, play) == upsert_play_inserted(docs, play)

\* upsert_track(db, play, increment_count): the collection after the call.
upsert_track(tr, track_id, increment_count) ==
    [tr EXCEPT ![track_id] =
        [exists |-> TRUE,
         listen_count |-> IF increment_count THEN @.listen_count + 1
                          ELSE @.listen_count]]

\* upsert_track returns whether the Track document was created by the call.
upsert_track_is_new(tr, track_id) == ~tr[track_id].exists

\* ------------------------------------------------------------ the re-arm

NoPlay == [track_id |-> NoTrack, played_at |-> NoTime,
           played_at_rounded |-> NoTime, opts |-> NoOpts]
NoLocal == [play |-> NoPlay, requests_made |-> 0, is_new_track |-> FALSE]

\* What _schedule_next_poll did last: who called it, the outcome it logged
\* and the interval it chose.
Outcome(who, outcome, interval) ==
    [who |-> who, outcome |-> outcome, interval |-> interval]

\* The calls of one invocation of poll_current_playback are counted.
Called(rm, last) ==
    [calls |-> IF last.who \in Procs
               THEN [rm.calls EXCEPT ![last.who] = @ + 1]
               ELSE rm.calls,
     last |-> last]

\* _schedule_next_poll(requests_made, reason), called by `who` with the job
\* store holding js; rm is the record of the calls so far.
schedule_next_poll(js, rm, who, requests_made) ==
    IF ~scheduler
    THEN /\ jobs' = js
         /\ rearm' = Called(rm, Outcome(who, "scheduler is None", 0))
    ELSE \E added \in BOOLEAN :
            IF added
            THEN /\ jobs' = add_job(js,
                        [id |-> POLL_JOB_ID,
                         due |-> next_interval(requests_made)])
                 /\ rearm' = Called(rm,
                        Outcome(who, "scheduled", next_interval(requests_made)))
            ELSE /\ jobs' = js
                 /\ rearm' = Called(rm,
                        Outcome(who, "add_job failed",
                                next_interval(requests_made)))

\* Mutant: the finally block calls _schedule_next_poll() with its default
\* argument.
Finally_DefaultArg(js, rm, p, res, requests_made) ==
    /\ pc' = [pc EXCEPT ![p] = "idle"]
    /\ local' = [local EXCEPT ![p] = NoLocal]
    /\ result' = [job |-> p, record |-> res]
    /\ schedule_next_poll(js, rm, p, 1)

\* The return of poll_current_playback with its finally block.
Finally(js, rm, p, res, requests_made) ==
    /\ pc' = [pc EXCEPT ![p] = "idle"]
    /\ local' = [local EXCEPT ![p] = NoLocal]
    /\ result' = [job |-> p, record |-> res]
    /\ schedule_next_poll(js, rm, p, requests_made)

\* ------------------------------------------------------- status records

Status(status, reason, playing, new_listen) ==
    [status |-> status, reason |-> reason, playing |-> playing,
     new_listen |-> new_listen, inserted |-> 0, skipped |-> 0]

NoResult == Status("none", "", FALSE, FALSE)
Skipped == Status("skipped", "not authenticated", FALSE, FALSE)
TimedOut == Status("error", "spotify api timeout", FALSE, FALSE)
Failed == Status("error", "exception", FALSE, FALSE)
NothingPlaying == Status("ok", "", FALSE, FALSE)
Playing(new_listen) == Status("ok", "", TRUE, new_listen)
Backfilled(inserted, skipped) ==
    [Status("ok", "", FALSE, FALSE) EXCEPT !.inserted = inserted,
                                           !.skipped = skipped]
\* No record: the exception left the job.
Raised == Status("raised", "exception", FALSE, FALSE)

\* ------------------------------------------------------------- the state


\* plays is the page of poll_recently_played: its length n, the index i of
\* the item the loop is at, and that item (the items are drawn as the loop
\* reaches them).
NoBackfill == [pc |-> "idle", n |-> 0, i |-> 0, play |-> NoPlay,
               inserted |-> 0, skipped |-> 0, was_new |-> FALSE]

LastAt == IF reports = <<>> THEN 0 ELSE reports[Len(reports)].at

Init ==
    /\ scheduler = FALSE
    /\ jobs = <<>>
    /\ token = FALSE
    /\ cache = [now_playing |-> NoEntry, svg |-> NoEntry, last_track |-> NoTrack]
    /\ plays = {}
    /\ tracks = [t \in Tracks |-> [exists |-> FALSE, listen_count |-> 0]]
    /\ pc = [p \in Procs |-> "idle"]
    /\ local = [p \in Procs |-> NoLocal]
    /\ result = [job |-> "none", record |-> NoResult]
    /\ rearm = [calls |-> [p \in Procs |-> 0],
                last |-> Outcome("none", "none", 0)]
    /\ reports = <<>>
    /\ bf = NoBackfill
    /\ cycles = 0

\* ------------------------------------------------------ the environment

\* set_scheduler(scheduler), called by register_jobs.
set_scheduler ==
    /\ ~scheduler
    /\ scheduler' = TRUE
    /\ UNCHANGED <<jobs, token, cache, plays, tracks, pc, local, result,
                   rearm, bf, reports, cycles>>

\* GET /spotify/callback: the credential is stored in the cache.
callback ==
    /\ ~token
    /\ token' = TRUE
    /\ UNCHANGED <<scheduler, jobs, cache, plays, tracks, pc, local, result,
                   rearm, bf, reports, cycles>>

\* One time-unit passes; a due job runs before more time passes.
Tick ==
    /\ jobs # <<>>
    /\ \A i \in 1..Len(jobs) : jobs[i].due > 0
    /\ jobs' = [i \in 1..Len(jobs) |-> [jobs[i] EXCEPT !.due = @ - 1]]
    /\ UNCHANGED <<scheduler, token, cache, plays, tracks, pc, local, result,
                   rearm, bf, reports, cycles>>

\* The scheduler reaches a due job more than misfire_grace_time (60 s) late: the run
\* is skipped and the one-shot job is gone.
Misfire ==
    /\ scheduler
    /\ \E i \in 1..Len(jobs) :
          /\ jobs[i].due = 0
          /\ jobs' = RemoveAt(jobs, i)
    /\ UNCHANGED <<scheduler, token, cache, plays, tracks, pc, local, result,
                   rearm, bf, reports, cycles>>

\* -------------------------------------------------- poll_current_playback

\* What the environment offers in a run: the tracks, timestamps, playback
\* positions and optional play fields the external source answers with, and
\* how many job invocations are started.
Inputs(tracks_, times, playbacks, opts, budget) ==
    [tracks |-> tracks_, times |-> times, playbacks |-> playbacks,
     opts |-> opts, budget |-> budget]

\* Mutant: the skip returns before the try block, so no finally re-arms.
PollBegin_SkipNoRearm(js, p, in) ==
    /\ pc[p] = "idle"
    /\ cycles < in.budget
    /\ cycles' = cycles + 1
    /\ IF ~token
       THEN /\ pc' = [pc EXCEPT ![p] = "idle"]
            /\ local' = [local EXCEPT ![p] = NoLocal]
            /\ result' = [job |-> p, record |-> Skipped]
            /\ jobs' = js
            /\ rearm' = [rearm EXCEPT !.calls[p] = 0]
       ELSE /\ pc' = [pc EXCEPT ![p] = "query"]
            /\ jobs' = js
            /\ rearm' = [rearm EXCEPT !.calls[p] = 0]
            /\ UNCHANGED <<local, result>>
    /\ UNCHANGED <<scheduler, token, cache, plays, tracks, bf, reports>>

\* Lines 70-82: up to the first await. js is the job store at the call.
PollBegin(js, p, in) ==
    /\ pc[p] = "idle"
    /\ cycles < in.budget
    /\ cycles' = cycles + 1
    /\ IF ~token
       THEN Finally(js, [rearm EXCEPT !.calls[p] = 0], p, Skipped, 0)
       ELSE /\ pc' = [pc EXCEPT ![p] = "query"]
            /\ jobs' = js
            /\ rearm' = [rearm EXCEPT !.calls[p] = 0]
            /\ UNCHANGED <<local, result>>
    /\ UNCHANGED <<scheduler, token, cache, plays, tracks, bf, reports>>

\* Mutant: the scheduler starts the job function of every due job, whether
\* or not an instance of it is still running.
Fire_NoInstanceLimit(in) ==
    /\ scheduler
    /\ cycles < in.budget
    /\ cycles' = cycles + 1
    /\ \E i \in 1..Len(jobs) :
          /\ jobs[i].due = 0
          /\ IF ~token
             THEN Finally(RemoveAt(jobs, i),
                          [rearm EXCEPT !.calls["sched"] = 0],
                          "sched", Skipped, 0)
             ELSE /\ pc' = [pc EXCEPT !["sched"] = "query"]
                  /\ local' = [local EXCEPT !["sched"] = NoLocal]
                  /\ jobs' = RemoveAt(jobs, i)
                  /\ rearm' = [rearm EXCEPT !.calls["sched"] = 0]
                  /\ UNCHANGED result
    /\ UNCHANGED <<scheduler, token, cache, plays, tracks, bf, reports>>

\* The date trigger fires: the one-shot job leaves the store and the job
\* function runs, unless an instance of it is still running (max_instances).
Fire(in) ==
    /\ scheduler
    /\ \E i \in 1..Len(jobs) :
          /\ jobs[i].due = 0
          /\ IF pc["sched"] = "idle"
             THEN PollBegin(RemoveAt(jobs, i), "sched", in)
             ELSE /\ jobs' = RemoveAt(jobs, i)
                  /\ UNCHANGED <<scheduler, token, cache, plays, tracks, pc,
                                 local, result, rearm, bf, reports, cycles>>

\* POST /spotify/poll/current-playback
manual_poll_current_playback(in) == PollBegin(jobs, "manual", in)

\* Mutant: the timeout handler clears the Last-Track Marker.
QueryTimeout_ClearsMarker(p) ==
    /\ pc[p] = "query"
    /\ cache' = delete(cache, "last_track")
    /\ Finally(jobs, rearm, p, TimedOut, local[p].requests_made)
    /\ UNCHANGED <<scheduler, token, plays, tracks, bf, reports, cycles>>

\* asyncio.TimeoutError on the current-playback call.
QueryTimeout(p) ==
    /\ pc[p] = "query"
    /\ Finally(jobs, rearm, p, TimedOut, local[p].requests_made)
    /\ UNCHANGED <<scheduler, token, cache, plays, tracks, bf, reports, cycles>>

\* Mutant: on nothing playing the marker is left to the next track change.
QueryNothing_KeepsMarker(p) ==
    /\ pc[p] = "query"
    /\ reports' = Append(reports, [track |-> NoTrack, at |-> LastAt])
    /\ cache' = delete(cache_now_playing(cache, NoEntry), "svg")
    /\ Finally(jobs, rearm, p, NothingPlaying, 1)
    /\ UNCHANGED <<scheduler, token, plays, tracks, bf, cycles>>

\* The call answers that nothing is playing.
QueryNothing(p) ==
    /\ pc[p] = "query"
    /\ reports' = Append(reports, [track |-> NoTrack, at |-> LastAt])
    /\ cache' = delete(delete(cache_now_playing(cache, NoEntry), "svg"),
                        "last_track")
    /\ Finally(jobs, rearm, p, NothingPlaying, 1)
    /\ UNCHANGED <<scheduler, token, plays, tracks, bf, cycles>>

\* The play and the snapshot the current-playback call can answer with.
LivePlays(in) ==
    {[track_id |-> t, played_at |-> at, played_at_rounded |-> NoTime,
      opts |-> o] :
        t \in in.tracks, at \in {x \in in.times : x >= LastAt},
        o \in in.opts}

\* Mutant: the snapshot and the payload are not written when the playback
\* answer arrives.
QueryPlaying_NoCache(p, in) ==
    /\ pc[p] = "query"
    /\ \E play \in LivePlays(in) :
          LET is_new_listen == play.track_id # cache.last_track IN
          /\ reports' = Append(reports,
                            [track |-> play.track_id, at |-> play.played_at])
          /\ cache' = cache
          /\ IF is_new_listen
             THEN /\ pc' = [pc EXCEPT ![p] = "upsert_track"]
                  /\ local' = [local EXCEPT ![p] =
                        [play |-> play, requests_made |-> 1,
                         is_new_track |-> FALSE]]
                  /\ UNCHANGED <<jobs, result, rearm>>
             ELSE Finally(jobs, rearm, p, Playing(FALSE), 1)
    /\ UNCHANGED <<scheduler, token, plays, tracks, bf, cycles>>

\* Mutant: the marker is set as soon as the track is seen to have changed.
QueryPlaying_MarkerEarly(p, in) ==
    /\ pc[p] = "query"
    /\ \E play \in LivePlays(in), pb \in in.playbacks :
          LET ttl == ttl_seconds(pb[1], pb[2])
              entry == [track |-> play.track_id, ttl |-> ttl]
              is_new_listen == play.track_id # cache.last_track
          IN
          /\ reports' = Append(reports,
                            [track |-> play.track_id, at |-> play.played_at])
          /\ cache' = [now_playing |-> entry, svg |-> entry,
                       last_track |-> play.track_id]
          /\ IF is_new_listen
             THEN /\ pc' = [pc EXCEPT ![p] = "upsert_track"]
                  /\ local' = [local EXCEPT ![p] =
                        [play |-> play, requests_made |-> 1,
                         is_new_track |-> FALSE]]
                  /\ UNCHANGED <<jobs, result, rearm>>
             ELSE Finally(jobs, rearm, p, Playing(FALSE), 1)
    /\ UNCHANGED <<scheduler, token, plays, tracks, bf, cycles>>

\* Mutant: every poll where something is playing counts as a new listen.
QueryPlaying_AlwaysNew(p, in) ==
    /\ pc[p] = "query"
    /\ \E play \in LivePlays(in), pb \in in.playbacks :
          LET ttl == ttl_seconds(pb[1], pb[2])
              entry == [track |-> play.track_id, ttl |-> ttl]
          IN
          /\ reports' = Append(reports,
                            [track |-> play.track_id, at |-> play.played_at])
          /\ cache' = cache_now_playing_svg(cache_now_playing(cache, entry),
                                            entry)
          /\ pc' = [pc EXCEPT ![p] = "upsert_track"]
          /\ local' = [local EXCEPT ![p] =
                [play |-> play, requests_made |-> 1, is_new_track |-> FALSE]]
          /\ UNCHANGED <<jobs, result, rearm>>
    /\ UNCHANGED <<scheduler, token, plays, tracks, bf, cycles>>

\* Lines 97-135 when something is playing: the snapshot and the rendered
\* payload are cached, then the track is compared with the marker.
QueryPlaying(p, in) ==
    /\ pc[p] = "query"
    /\ \E play \in LivePlays(in), pb \in in.playbacks :
          LET ttl == ttl_seconds(pb[1], pb[2])
              entry == [track |-> play.track_id, ttl |-> ttl]
              is_new_listen == play.track_id # cache.last_track
          IN
          /\ reports' = Append(reports,
                            [track |-> play.track_id, at |-> play.played_at])
          /\ cache' = cache_now_playing_svg(cache_now_playing(cache, entry),
                                            entry)
          /\ IF is_new_listen
             THEN /\ pc' = [pc EXCEPT ![p] = "upsert_track"]
                  /\ local' = [local EXCEPT ![p] =
                        [play |-> play, requests_made |-> 1,
                         is_new_track |-> FALSE]]
                  /\ UNCHANGED <<jobs, result, rearm>>
             ELSE Finally(jobs, rearm, p, Playing(FALSE), 1)
    /\ UNCHANGED <<scheduler, token, plays, tracks, bf, cycles>>

\* Line 140: await upsert_track(db, play, increment_count=True)
UpsertTrack(p) ==
    /\ pc[p] = "upsert_track"
    /\ tracks' = upsert_track(tracks, local[p].play.track_id, TRUE)
    /\ local' = [local EXCEPT ![p].is_new_track =
                    upsert_track_is_new(tracks, local[p].play.track_id)]
    /\ pc' = [pc EXCEPT ![p] = "insert_play"]
    /\ UNCHANGED <<scheduler, jobs, token, cache, plays, result, rearm,
                   bf, reports, cycles>>

\* Line 143: await insert_play(db, play)
InsertPlay(p) ==
    /\ pc[p] = "insert_play"
    /\ plays' = insert_play(plays, local[p].play)
    /\ pc' = [pc EXCEPT ![p] =
                IF local[p].is_new_track THEN "sync_artists" ELSE "set_marker"]
    /\ UNCHANGED <<scheduler, jobs, token, cache, tracks, local, result,
                   rearm, bf, reports, cycles>>

\* Lines 147-151: artists_synced is what the enrichment call found missing.
SyncArtists(p) ==
    /\ pc[p] = "sync_artists"
    /\ \E artists_synced \in {0, 1} :
          local' = [local EXCEPT ![p].requests_made =
                        IF artists_synced > 0 THEN @ + 1 ELSE @]
    /\ pc' = [pc EXCEPT ![p] = "sync_album"]
    /\ UNCHANGED <<scheduler, jobs, token, cache, plays, tracks, result,
                   rearm, bf, reports, cycles>>

\* Lines 153-157
SyncAlbum(p) ==
    /\ pc[p] = "sync_album"
    /\ \E album_synced \in {0, 1} :
          local' = [local EXCEPT ![p].requests_made =
                        IF album_synced > 0 THEN @ + 1 ELSE @]
    /\ pc' = [pc EXCEPT ![p] = "set_marker"]
    /\ UNCHANGED <<scheduler, jobs, token, cache, plays, tracks, result,
                   rearm, bf, reports, cycles>>

\* Lines 159-168 and the finally block.
SetMarker(p) ==
    /\ pc[p] = "set_marker"
    /\ cache' = [cache EXCEPT !.last_track = local[p].play.track_id]
    /\ Finally(jobs, rearm, p, Playing(TRUE), local[p].requests_made)
    /\ UNCHANGED <<scheduler, token, plays, tracks, bf, reports, cycles>>

Awaiting == {"query", "upsert_track", "insert_play", "sync_artists",
             "sync_album", "set_marker"}

\* Mutant: the handler returns and no finally block re-arms the poll.
PollException_NoFinally(p) ==
    /\ pc[p] \in Awaiting
    /\ pc' = [pc EXCEPT ![p] = "idle"]
    /\ local' = [local EXCEPT ![p] = NoLocal]
    /\ result' = [job |-> p, record |-> Failed]
    /\ UNCHANGED <<scheduler, jobs, token, cache, plays, tracks, rearm, bf,
                   reports, cycles>>

\* Lines 170-173: the awaited call (or the marker write) raises; the handler
\* returns an error record and the finally block runs.
PollException(p) ==
    /\ pc[p] \in Awaiting
    /\ Finally(jobs, rearm, p, Failed, local[p].requests_made)
    /\ UNCHANGED <<scheduler, token, cache, plays, tracks, bf, reports, cycles>>

\* Lines 116-125: the snapshot is cached and the write of the rendered payload
\* raises.
SvgException(p, in) ==
    /\ pc[p] = "query"
    /\ \E play \in LivePlays(in), pb \in in.playbacks :
          /\ reports' = Append(reports,
                            [track |-> play.track_id, at |-> play.played_at])
          /\ cache' = cache_now_playing(cache,
                        [track |-> play.track_id,
                         ttl |-> ttl_seconds(pb[1], pb[2])])
    /\ Finally(jobs, rearm, p, Failed, 1)
    /\ UNCHANGED <<scheduler, token, plays, tracks, bf, cycles>>

\* ------------------------------------------------------- the watchdog

\* Mutant: the watchdog re-arms without looking at the job slot.
ensure_poller_alive_AlwaysRearm ==
    /\ IF ~scheduler
       THEN UNCHANGED <<jobs, rearm>>
       ELSE schedule_next_poll(jobs, rearm, "watchdog", 1)
    /\ UNCHANGED <<scheduler, token, cache, plays, tracks, pc, local, result,
                   bf, reports, cycles>>

\* Mutant: the watchdog only logs that the job is missing.
ensure_poller_alive_LogsOnly ==
    /\ scheduler
    /\ get_job(jobs, POLL_JOB_ID) = <<>>
    /\ rearm' = [rearm EXCEPT !.last = Outcome("watchdog", "job not found", 0)]
    /\ UNCHANGED <<scheduler, jobs, token, cache, plays, tracks, pc, local,
                   result, bf, reports, cycles>>

ensure_poller_alive ==
    /\ IF ~scheduler
       THEN UNCHANGED <<jobs, rearm>>
       ELSE IF get_job(jobs, POLL_JOB_ID) = <<>>
            THEN schedule_next_poll(jobs, rearm, "watchdog", 1)
            ELSE UNCHANGED <<jobs, rearm>>
    /\ UNCHANGED <<scheduler, token, cache, plays, tracks, pc, local, result,
                   bf, reports, cycles>>

\* ------------------------------------------------- poll_recently_played

\* The pages the recent-history call can answer with.
HistoryPlays(in) ==
    {[track_id |-> t, played_at |-> at, played_at_rounded |-> NoTime,
      opts |-> o] : t \in in.tracks, at \in in.times, o \in in.opts}

\* The job returns res.
BackfillReturn(res) ==
    /\ bf' = NoBackfill
    /\ result' = [job |-> "backfill", record |-> res]

\* Lines 195-200: up to the first await.
BackfillBegin(in) ==
    /\ bf.pc = "idle"
    /\ cycles < in.budget
    /\ cycles' = cycles + 1
    /\ IF ~token
       THEN BackfillReturn(Skipped)
       ELSE /\ bf' = [bf EXCEPT !.pc = "fetch"]
            /\ UNCHANGED result
    /\ UNCHANGED <<scheduler, jobs, token, cache, plays, tracks, pc, local,
                   rearm, reports>>

\* Lines 201-209: the page arrives.
BackfillFetch(in) ==
    /\ bf.pc = "fetch"
    /\ \E n \in 0..MaxHistory :
          IF n = 0
          THEN BackfillReturn(Backfilled(0, 0))
          ELSE /\ \E play \in HistoryPlays(in) :
                    bf' = [bf EXCEPT !.pc = "insert_play", !.n = n, !.i = 1,
                                     !.play = play]
               /\ UNCHANGED result
    /\ UNCHANGED <<scheduler, jobs, token, cache, plays, tracks, pc, local,
                   rearm, reports, cycles>>

\* Line 212: was_new = await insert_play(db, play)
BackfillInsertPlay ==
    /\ bf.pc = "insert_play"
    /\ plays' = insert_play(plays, bf.play)
    /\ bf' = [bf EXCEPT !.pc = "upsert_track",
                        !.was_new = insert_play_was_new(plays, bf.play)]
    /\ UNCHANGED <<scheduler, jobs, token, cache, tracks, pc, local, result,
                   rearm, reports, cycles>>

\* Mutant: increment_count=True on the duplicate branch too.
BackfillUpsertTrack_AlwaysIncrement(in) ==
    /\ bf.pc = "upsert_track"
    /\ LET inserted == IF bf.was_new THEN bf.inserted + 1 ELSE bf.inserted
           skipped == IF bf.was_new THEN bf.skipped ELSE bf.skipped + 1
       IN
       /\ tracks' = upsert_track(tracks, bf.play.track_id, TRUE)
       /\ IF bf.i = bf.n
          THEN BackfillReturn(Backfilled(inserted, skipped))
          ELSE /\ \E play \in HistoryPlays(in) :
                    bf' = [bf EXCEPT !.pc = "insert_play", !.i = @ + 1,
                                     !.play = play,
                                     !.inserted = inserted,
                                     !.skipped = skipped,
                                     !.was_new = FALSE]
               /\ UNCHANGED result
    /\ UNCHANGED <<scheduler, jobs, token, cache, plays, pc, local, rearm,
                   reports, cycles>>

\* Lines 213-223: the counters, the track upsert, and the next item or the
\* return.
BackfillUpsertTrack(in) ==
    /\ bf.pc = "upsert_track"
    /\ LET inserted == IF bf.was_new THEN bf.inserted + 1 ELSE bf.inserted
           skipped == IF bf.was_new THEN bf.skipped ELSE bf.skipped + 1
       IN
       /\ tracks' = upsert_track(tracks, bf.play.track_id, bf.was_new)
       /\ IF bf.i = bf.n
          THEN BackfillReturn(Backfilled(inserted, skipped))
          ELSE /\ \E play \in HistoryPlays(in) :
                    bf' = [bf EXCEPT !.pc = "insert_play", !.i = @ + 1,
                                     !.play = play,
                                     !.inserted = inserted,
                                     !.skipped = skipped,
                                     !.was_new = FALSE]
               /\ UNCHANGED result
    /\ UNCHANGED <<scheduler, jobs, token, cache, plays, pc, local, rearm,
                   reports, cycles>>

\* An awaited call raises: nothing in poll_recently_played catches it.
BackfillException ==
    /\ bf.pc \in {"fetch", "insert_play", "upsert_track"}
    /\ BackfillReturn(Raised)
    /\ UNCHANGED <<scheduler, jobs, token, cache, plays, tracks, pc, local,
                   rearm, reports, cycles>>

\* ------------------------------------------------------ specifications

PollStep(p, in) ==
    \/ QueryTimeout(p)
    \/ QueryNothing(p)
    \/ QueryPlaying(p, in)
    \/ SvgException(p, in)
    \/ UpsertTrack(p)
    \/ InsertPlay(p)
    \/ SyncArtists(p)
    \/ SyncAlbum(p)
    \/ SetMarker(p)
    \/ PollException(p)

\* The poller under its scheduler, with manual triggers racing it.
LiveInputs == Inputs(Tracks, {5}, {<<200000, 170000>>}, {NoOpts}, MaxCycles)

Next ==
    \/ set_scheduler
    \/ callback
    \/ Tick
    \/ Misfire
    \/ Fire(LiveInputs)
    \/ manual_poll_current_playback(LiveInputs)
    \/ ensure_poller_alive
    \/ \E p \in Procs : PollStep(p, LiveInputs)

Spec == Init /\ [][Next]_vars

\* Ingestion: polls and backfills triggered through the endpoints, no
\* scheduler registered.
IngestInputs == Inputs({"A"}, Times, {<<200000, 170000>>}, {NoOpts}, MaxCycles)

NextIngest ==
    \/ callback
    \/ manual_poll_current_playback(IngestInputs)
    \/ PollStep("manual", IngestInputs)
    \/ BackfillBegin(IngestInputs)
    \/ BackfillFetch(IngestInputs)
    \/ BackfillInsertPlay
    \/ BackfillUpsertTrack(IngestInputs)
    \/ BackfillException

SpecIngest == Init /\ [][NextIngest]_vars

\* The scheduled jobs side by side: the live poller under its scheduler and
\* watchdog, and the backfill job.
JobsInputs ==
    Inputs({"A"}, {5}, {<<200000, 170000>>, <<200000, 10000>>}, {NoOpts},
           MaxCycles)

NextJobs ==
    \/ set_scheduler
    \/ callback
    \/ Tick
    \/ Fire(JobsInputs)
    \/ ensure_poller_alive
    \/ PollStep("sched", JobsInputs)
    \/ BackfillBegin(JobsInputs)
    \/ BackfillFetch(JobsInputs)
    \/ BackfillInsertPlay
    \/ BackfillUpsertTrack(JobsInputs)
    \/ BackfillException

SpecJobs == Init /\ [][NextJobs]_vars

\* The steps of a live-poll cycle in which every awaited call answers.
WriteStep(p, in) ==
    \/ QueryPlaying(p, in)
    \/ UpsertTrack(p)
    \/ InsertPlay(p)
    \/ SyncArtists(p)
    \/ SyncAlbum(p)
    \/ SetMarker(p)

\* The writers of one play racing each other: the scheduled live poll, a
\* manually triggered one and the backfill job, all handed the same play.
RaceInputs == Inputs({"A"}, {5}, {<<200000, 170000>>}, {NoOpts}, MaxCycles)

NextRace ==
    \/ set_scheduler
    \/ callback
    \/ Tick
    \/ Fire(RaceInputs)
    \/ ensure_poller_alive
    \/ manual_poll_current_playback(RaceInputs)
    \/ \E p \in Procs : WriteStep(p, RaceInputs)
    \/ BackfillBegin(RaceInputs)
    \/ BackfillFetch(RaceInputs)
    \/ BackfillInsertPlay
    \/ BackfillUpsertTrack(RaceInputs)

SpecRace == Init /\ [][NextRace]_vars

\* --------------------------------------------------- the upserts, alone

\* Optional fields a play can carry.
OnPhone == [NoOpts EXCEPT !.device_name = "phone", !.device_type = "Smartphone"]
OnLaptop == [NoOpts EXCEPT !.device_name = "laptop", !.device_type = "Computer"]
InAlbum == [NoOpts EXCEPT !.context_type = "album", !.context_uri = "album:1",
                          !.shuffle_state = "off"]

\* The plays upsert_play and upsert_plays can be handed.
PlayArgs(in) ==
    {[track_id |-> t, played_at |-> at, played_at_rounded |-> NoTime,
      opts |-> o] : t \in in.tracks, at \in in.times, o \in in.opts}

\* The sequences of at most n plays.
Pages(in, n) == UNION {[1..k -> PlayArgs(in)] : k \in 0..n}

\* What upsert_play and upsert_plays return.
Upserted(inserted, updated) ==
    [status |-> "ok", inserted |-> inserted, updated |-> updated]

\* await upsert_play(db, play)
UpsertPlay(in) ==
    /\ \E play \in PlayArgs(in) :
          /\ plays' = upsert_play(plays, play)
          /\ result' = [job |-> "upsert_play",
                        record |-> IF upsert_play_inserted(plays, play)
                                   THEN Upserted(1, 0) ELSE Upserted(0, 1),
                        play |-> play]
    /\ UNCHANGED <<scheduler, jobs, token, cache, tracks, pc, local, rearm,
                   bf, reports, cycles>>

\* await upsert_plays(db, plays)
UpsertPlays(in) ==
    /\ \E ps \in Pages(in, MaxHistory) :
          /\ plays' = upsert_plays(plays, ps)
          /\ result' = [job |-> "upsert_plays",
                        record |-> Upserted(upserted_count(plays, ps),
                                            modified_count(plays, ps))]
    /\ UNCHANGED <<scheduler, jobs, token, cache, tracks, pc, local, rearm,
                   bf, reports, cycles>>

UpsertInputs ==
    Inputs({"A"}, {5, 65}, {<<200000, 170000>>},
           {NoOpts, OnPhone, OnLaptop, InAlbum}, MaxCycles)

NextUpsert ==
    \/ UpsertPlay(UpsertInputs)
    \/ UpsertPlays(UpsertInputs)

SpecUpsert == Init /\ [][NextUpsert]_vars

\* Lines 147-157 and 170-173: sync_missing_artists or sync_missing_album
\* raises.
EnrichmentException(p) ==
    /\ pc[p] \in {"sync_artists", "sync_album"}
    /\ PollException(p)

\* Live polls one after another in which nothing fails but the enrichment.
EnrichInputs == Inputs(Tracks, {5}, {<<200000, 170000>>}, {NoOpts}, MaxCycles)

NextEnrich ==
    \/ callback
    \/ manual_poll_current_playback(EnrichInputs)
    \/ QueryNothing("manual")
    \/ WriteStep("manual", EnrichInputs)
    \/ EnrichmentException("manual")

SpecEnrich == Init /\ [][NextEnrich]_vars

\* The poller under its scheduler and watchdog, left to itself: time passes,
\* a due job is run in the end, the awaited calls return, and add_job does
\* not fail for ever when the watchdog calls it.
WatchedInputs == Inputs({"A"}, {5}, {<<200000, 170000>>}, {NoOpts}, MaxCycles)

NextWatched ==
    \/ set_scheduler
    \/ callback
    \/ Tick
    \/ Misfire
    \/ Fire(WatchedInputs)
    \/ ensure_poller_alive
    \/ PollStep("sched", WatchedInputs)

\* The watchdog runs and its add_job call goes through.
Revive == ensure_poller_alive /\ Len(jobs') > Len(jobs)

SpecWatched ==
    /\ Init
    /\ [][NextWatched]_vars
    /\ WF_vars(Tick)
    /\ SF_vars(Fire(WatchedInputs))
    /\ WF_vars(Revive)
    /\ WF_vars(PollStep("sched", WatchedInputs))

TypeOK ==
    /\ scheduler \in BOOLEAN
    /\ token \in BOOLEAN
    /\ cycles \in 0..MaxCycles
    /\ \A p \in Procs : pc[p] \in Awaiting \cup {"idle"}

\* ------------------------------------------------------------- claims

\* The step in which an invocation of poll_current_playback by p returns:
\* from an await, or at once when no credential is cached.
Returns(p) ==
    \/ pc[p] \in Awaiting /\ pc'[p] = "idle"
    \/ /\ pc[p] = "idle" /\ pc' = pc /\ bf' = bf
       /\ cycles' = cycles + 1
       /\ result'.job = p

\* The exception handler of poll_current_playback returns in this step.
Raises(p) == Returns(p) /\ result'.record = Failed

Quiet == (\A p \in Procs : pc[p] = "idle") /\ bf.pc = "idle"

HasPlay(docs, track_id, rounded) == Matching(docs, track_id, rounded) # {}

RECURSIVE TotalListens(_, _)
TotalListens(tr, S) ==
    IF S = {} THEN 0
    ELSE LET t == CHOOSE x \in S : TRUE IN
         tr[t].listen_count + TotalListens(tr, S \ {t})

\* K: how often the reported track identifier changed to a track.
Transitions(rs) ==
    Cardinality({i \in 1..Len(rs) :
        /\ rs[i].track # NoTrack
        /\ (i = 1 \/ rs[i - 1].track # rs[i].track)})

\* C1 as stated: after any cycle of poll_current_playback ends, exactly one
\* pending poll job exists.
C1_OneJobAfterEveryCycle ==
    [][\A p \in Procs : Returns(p) => Len(PollJobs(jobs')) = 1]_vars

\* C1 amended: every invocation of poll_current_playback calls
\* _schedule_next_poll exactly once, whatever its outcome; afterwards at most
\* one poll job is pending, and exactly one when the call scheduled it (a
\* scheduler is set and add_job did not raise).
C1_RearmOncePerCycle ==
    [][\A p \in Procs :
        /\ (pc'[p] \in Awaiting => rearm'.calls[p] = 0)
        /\ (Returns(p) =>
              /\ rearm'.calls[p] = 1
              /\ rearm'.last.who = p
              /\ Len(PollJobs(jobs')) <= 1
              /\ (rearm'.last.outcome = "scheduled" =>
                    /\ scheduler
                    /\ Len(PollJobs(jobs')) = 1
                    /\ PollJobs(jobs')[1].due = rearm'.last.interval)
              /\ (rearm'.last.outcome # "scheduled" =>
                    Len(jobs') <= Len(jobs)))]_vars

\* C1 witness: a cycle that raised has returned, its one call scheduled the
\* next poll and one poll job is pending.
C1_Witness ==
    /\ result.job \in Procs
    /\ result.record = Failed
    /\ pc[result.job] = "idle"
    /\ rearm.calls[result.job] = 1
    /\ rearm.last = Outcome(result.job, "scheduled", DEFAULT_INTERVAL)
    /\ Len(PollJobs(jobs)) = 1

\* C2 as stated (its bound): over any sequence of live-poll cycles the
\* listen counts never add up to more than K, the number of times the
\* reported track identifier changed.
C2_ListenCountAtMostTransitions ==
    TotalListens(tracks, Tracks) <= Transitions(reports)

\* C6 as stated: a cycle that raises re-arms the next poll at the default
\* 1-unit delay, never at the 2-unit delay.
C6_RaisedCycleDefaultDelay ==
    [][\A p \in Procs :
        Raises(p) /\ rearm'.last.outcome = "scheduled" =>
            /\ rearm'.last.interval = DEFAULT_INTERVAL
            /\ PollJobs(jobs')[1].due = DEFAULT_INTERVAL]_vars

\* C6 amended: a cycle that raises re-arms the next poll exactly once, at the
\* 2-unit delay when it had already made more than one external call (an
\* enrichment call had synced something before the exception) and at the
\* default 1-unit delay otherwise; an exception before or during the first
\* enrichment call always gives the 1-unit delay.
C6_RaisedCycleDelayByRequests ==
    [][\A p \in Procs :
        Raises(p) =>
            /\ rearm'.calls[p] = 1
            /\ (rearm'.last.outcome = "scheduled" =>
                  /\ rearm'.last.interval =
                        (IF local[p].requests_made > 1 THEN BUSY_INTERVAL
                         ELSE DEFAULT_INTERVAL)
                  /\ PollJobs(jobs')[1].due = rearm'.last.interval
                  /\ (pc[p] \in {"query", "upsert_track", "insert_play",
                                 "sync_artists"} =>
                        rearm'.last.interval = DEFAULT_INTERVAL))]_vars

\* C6 witness: a cycle raised after an enrichment call had synced, and the
\* next poll is pending at the 2-unit delay.
C6_Witness ==
    /\ result.job \in Procs
    /\ result.record = Failed
    /\ rearm.last = Outcome(result.job, "scheduled", BUSY_INTERVAL)
    /\ PollJobs(jobs) = <<[id |-> POLL_JOB_ID, due |-> BUSY_INTERVAL]>>

\* A call of _schedule_next_poll by the watchdog is this step: the call is
\* recorded, or a job is added while the watchdog is the last caller.
WatchdogRearms ==
    /\ rearm'.last.who = "watchdog"
    /\ cycles' = cycles
    /\ rearm'.last # rearm.last \/ Len(jobs') > Len(jobs)

\* C7 as stated: when the watchdog runs on an empty slot, exactly one poll
\* job is scheduled afterwards.
C7_WatchdogAlwaysRevives ==
    [][WatchdogRearms => Len(PollJobs(jobs')) = 1]_vars

\* C7 amended: the watchdog calls _schedule_next_poll only when a scheduler
\* is set and the poll job slot is empty, and then with the default 1-unit
\* delay; if add_job does not raise, exactly one poll job is pending
\* afterwards, otherwise the slot stays empty. With a poll job present the
\* watchdog schedules nothing and the job and its run time are unchanged.
C7_WatchdogRevivesOnce ==
    [][WatchdogRearms =>
        /\ scheduler
        /\ get_job(jobs, POLL_JOB_ID) = <<>>
        /\ rearm'.last.interval = DEFAULT_INTERVAL
        /\ IF rearm'.last.outcome = "scheduled"
           THEN jobs' = jobs \o <<[id |-> POLL_JOB_ID,
                                   due |-> DEFAULT_INTERVAL]>>
           ELSE jobs' = jobs]_vars

\* C7 witness: the watchdog has revived the poller and one job is pending.
C7_Witness ==
    /\ rearm.last = Outcome("watchdog", "scheduled", DEFAULT_INTERVAL)
    /\ PollJobs(jobs) = <<[id |-> POLL_JOB_ID, due |-> DEFAULT_INTERVAL]>>
    /\ cycles > 0

\* The Play of the listen p is recording is in the durable store.
PlayStored(docs, p) ==
    HasPlay(docs, local[p].play.track_id, played_at_rounded_of(local[p].play))

C9_MarkerAfterWrites ==
    [][/\ (cache'.last_track # cache.last_track
            /\ cache'.last_track # NoTrack =>
              \E p \in Procs :
                  /\ pc[p] = "set_marker"
                  /\ cache'.last_track = local[p].play.track_id
                  /\ PlayStored(plays, p)
                  /\ tracks[local[p].play.track_id].exists
                  /\ tracks[local[p].play.track_id].listen_count >= 1)
       /\ \A p \in Procs :
              Raises(p) /\ pc[p] # "query" =>
                  cache'.last_track = cache.last_track]_vars

\* C9 witness: a new listen was recorded and the marker names its track.
C9_Witness ==
    /\ result.job \in Procs
    /\ result.record = Playing(TRUE)
    /\ cache.last_track = "A"
    /\ HasPlay(plays, "A", RoundToMinute(5))
    /\ tracks["A"].listen_count = 1

\* The backfill job handled the item at insert_play in this step.
BackfillInserts == bf.pc = "insert_play" /\ bf'.pc = "upsert_track"

\* The backfill job handled the item at upsert_track in this step.
BackfillCounts ==
    /\ bf.pc = "upsert_track"
    /\ bf'.pc = "insert_play" \/ (bf'.pc = "idle" /\ result'.record # Raised)

\* C3: when the play of a history item is already stored, the backfill job
\* adds no Play for it, does not increment the Track's listen_count, and
\* counts the item as skipped, not as inserted.
C3_BackfillNoInflation ==
    [][/\ (BackfillInserts
            /\ HasPlay(plays, bf.play.track_id, played_at_rounded_of(bf.play))
            => /\ ~bf'.was_new
               /\ Cardinality(plays') = Cardinality(plays)
               /\ tracks' = tracks)
       /\ (BackfillCounts /\ ~bf.was_new
            => /\ tracks'[bf.play.track_id].listen_count =
                      tracks[bf.play.track_id].listen_count
               /\ IF bf'.pc = "idle"
                  THEN /\ result'.record.skipped = bf.skipped + 1
                       /\ result'.record.inserted = bf.inserted
                  ELSE /\ bf'.skipped = bf.skipped + 1
                       /\ bf'.inserted = bf.inserted)]_vars

\* C3 witness: the live poller recorded a play of A, then the backfill job
\* met it in its page, skipped it, and the listen_count is still 1.
C3_Witness ==
    /\ result.job = "backfill"
    /\ result.record.status = "ok"
    /\ result.record.skipped = 1
    /\ result.record.inserted = 0
    /\ reports # <<>>
    /\ cycles = 2
    /\ Cardinality(plays) = 1
    /\ tracks["A"].listen_count = 1

\* The plays an ingestion can be handed.
AnyPlays ==
    {[track_id |-> t, played_at |-> at,
      played_at_rounded |-> IF carried THEN RoundToMinute(at) ELSE NoTime,
      opts |-> NoOpts] :
        t \in Tracks, at \in Times, carried \in BOOLEAN}

\* C4: no two Play documents share (track_id, played_at_rounded); and from
\* every reachable store, upserting a play inserts one document and returns
\* True exactly when its key is not stored, and upserting it again returns
\* False, adds no document and leaves the store as the first call left it.
C4_IdempotentUpsert ==
    /\ \A d1, d2 \in plays :
          d1.track_id = d2.track_id
          /\ d1.played_at_rounded = d2.played_at_rounded => d1 = d2
    /\ \A play \in AnyPlays :
          LET once == upsert_play(plays, play)
              twice == upsert_play(once, play)
              key == played_at_rounded_of(play)
          IN
          /\ upsert_play_inserted(plays, play)
                <=> ~HasPlay(plays, play.track_id, key)
          /\ Cardinality(once) =
                Cardinality(plays)
                    + (IF upsert_play_inserted(plays, play) THEN 1 ELSE 0)
          /\ Cardinality(Matching(once, play.track_id, key)) = 1
          /\ ~upsert_play_inserted(once, play)
          /\ twice = once

\* C4 witness: a play was ingested twice (the second time by the backfill
\* job, which counted a duplicate) and one Play document is stored.
C4_Witness ==
    /\ result.job = "backfill"
    /\ result.record.skipped >= 1
    /\ Cardinality(plays) = 1

\* C5 as stated: live polls at 12:00:05, 12:00:42 and 12:01:05 that all
\* report track A, none of them failing, leave a Play of A in the bucket
\* 12:00:00 and a second one in the bucket 12:01:00.
C5_ThirdPollSecondPlay ==
    /\ reports = <<[track |-> "A", at |-> 5], [track |-> "A", at |-> 42],
                   [track |-> "A", at |-> 65]>>
    /\ Quiet
    /\ result.record = Playing(FALSE) \/ result.record = Playing(TRUE)
    /\ tracks["A"].listen_count = 1
    /\ HasPlay(plays, "A", 0)
    => HasPlay(plays, "A", 60)

\* C5 amended: every ingestion of a play (insert_play by a live poll that
\* classified it as a new listen, or by the backfill job) stores it under
\* played_at_rounded = played_at truncated to the minute, so that ingestions
\* of one track at 12:00:05 and 12:00:42 share one Play in the bucket
\* 12:00:00 and an ingestion at 12:01:05 is a second, distinct Play in the
\* bucket 12:01:00; a live poll that reports the track the Last-Track Marker
\* already names ingests nothing, whatever the minute.
C5_DedupBucket ==
    [][/\ \A d \in plays' :
            /\ (d.played_at \in {5, 42} => d.played_at_rounded = 0)
            /\ (d.played_at = 65 => d.played_at_rounded = 60)
       /\ \A t \in Tracks :
            /\ Cardinality(Matching(plays', t, 0)) <= 1
            /\ Cardinality(Matching(plays', t, 60)) <= 1
       /\ \A p \in Procs :
            /\ (pc[p] = "insert_play" /\ pc'[p] # pc[p] /\ ~Raises(p) =>
                  LET play == local[p].play
                      key == IF play.played_at = 65 THEN 60 ELSE 0
                  IN
                  /\ \E d \in plays' :
                        /\ d.track_id = play.track_id
                        /\ d.played_at_rounded = key
                        /\ d.played_at = play.played_at
                  /\ Cardinality(plays') =
                        Cardinality(plays)
                            + (IF HasPlay(plays, play.track_id, key)
                               THEN 0 ELSE 1))
            /\ (pc[p] = "query" /\ Returns(p)
                /\ result'.record = Playing(FALSE) =>
                  /\ plays' = plays
                  /\ tracks' = tracks
                  /\ cache.last_track = reports'[Len(reports')].track)
       /\ (BackfillInserts =>
              \E d \in plays' :
                  /\ d.track_id = bf.play.track_id
                  /\ d.played_at = bf.play.played_at
                  /\ d.played_at_rounded =
                        (IF bf.play.played_at = 65 THEN 60 ELSE 0))]_vars

\* C5 witness: track A has one Play in the bucket 12:00:00, last seen at
\* 12:00:42, and a second Play in the bucket 12:01:00.
C5_Witness ==
    /\ Cardinality(plays) = 2
    /\ \E d1, d2 \in plays :
          /\ d1.track_id = "A" /\ d1.played_at_rounded = 0
          /\ d1.played_at = 42
          /\ d2.track_id = "A" /\ d2.played_at_rounded = 60
          /\ d2.played_at = 65
    /\ tracks["A"].listen_count = 2

\* C10 as stated: every invocation of a job returns a status record; no
\* exception leaves poll_current_playback or poll_recently_played.
C10_NoExceptionEscapes ==
    result.record.status \in {"none", "ok", "skipped", "error"}

\* The current-playback call of p timed out in this step.
TimesOut(p) == pc[p] = "query" /\ Returns(p) /\ result'.record = TimedOut

\* C11: a live-poll cycle whose current-playback call times out changes no
\* cache entry, marker, Play or Track (neither when it begins nor when the
\* timeout arrives), returns the error record of the timeout, and calls
\* _schedule_next_poll once with no request counted: the next poll is
\* scheduled at the default 1-unit delay.
C11_TimeoutSoftFailure ==
    [][\A p \in Procs :
        /\ (pc[p] = "idle" /\ pc'[p] = "query" =>
              cache' = cache /\ plays' = plays /\ tracks' = tracks)
        /\ (TimesOut(p) =>
              /\ cache' = cache /\ plays' = plays /\ tracks' = tracks
              /\ result'.record.status = "error"
              /\ result'.record.reason = "spotify api timeout"
              /\ local[p].requests_made = 0
              /\ rearm'.calls[p] = 1
              /\ rearm'.last.who = p
              /\ (rearm'.last.outcome # "scheduler is None" =>
                    rearm'.last.interval = DEFAULT_INTERVAL)
              /\ (rearm'.last.outcome = "scheduled" =>
                    PollJobs(jobs') = <<[id |-> POLL_JOB_ID,
                                         due |-> DEFAULT_INTERVAL]>>))]_vars

\* C11 witness: a cycle timed out after an earlier cycle had recorded a
\* listen; the marker, the snapshot and the Play are still there and the next
\* poll is pending at the 1-unit delay.
C11_Witness ==
    /\ result.job \in Procs
    /\ result.record = TimedOut
    /\ rearm.last = Outcome(result.job, "scheduled", DEFAULT_INTERVAL)
    /\ PollJobs(jobs) = <<[id |-> POLL_JOB_ID, due |-> DEFAULT_INTERVAL]>>
    /\ cache.last_track = "A"
    /\ cache.now_playing.track = "A"
    /\ HasPlay(plays, "A", RoundToMinute(5))
    /\ tracks["A"].listen_count = 1

\* The current-playback call of p answered that nothing is playing, in this
\* step.
FindsNothing(p) ==
    pc[p] = "query" /\ Returns(p) /\ result'.record = NothingPlaying

\* C12: the cycle that finds nothing playing deletes the Now-Playing
\* Snapshot, the rendered display payload and the Last-Track Marker before it
\* returns, whatever they held and whatever TTL they had, writes neither
\* Plays nor Tracks, and returns status ok with playing false.
C12_NothingPlayingClears ==
    [][\A p \in Procs :
        FindsNothing(p) =>
            /\ cache'.now_playing = NoEntry
            /\ cache'.svg = NoEntry
            /\ cache'.last_track = NoTrack
            /\ result'.record.status = "ok"
            /\ ~result'.record.playing
            /\ reports'[Len(reports')].track = NoTrack
            /\ plays' = plays /\ tracks' = tracks]_vars

\* C12 witness: a listen of A was recorded and cached, then a cycle found
\* nothing playing and all three keys are absent.
C12_Witness ==
    /\ Len(reports) = 2
    /\ reports[1].track = "A"
    /\ reports[2].track = NoTrack
    /\ result.record = NothingPlaying
    /\ tracks["A"].listen_count = 1
    /\ HasPlay(plays, "A", RoundToMinute(5))
    /\ cache = [now_playing |-> NoEntry, svg |-> NoEntry,
                last_track |-> NoTrack]

\* C13: a job invocation that begins with no cached credential (a live poll
\* or a backfill run) returns at once the record {status skipped, reason not
\* authenticated}, never an error, and changes no cache entry, marker, Play
\* or Track; the live poll still calls _schedule_next_poll once, with no
\* request counted, so the next poll is scheduled at the default 1-unit delay,
\* and the backfill run touches neither the job store nor the re-arm.
C13_NoCredentialSoftSkip ==
    [][cycles' = cycles + 1 /\ ~token =>
        /\ ~token'
        /\ pc' = pc /\ bf' = bf
        /\ cache' = cache /\ plays' = plays /\ tracks' = tracks
        /\ reports' = reports
        /\ result'.job \in Procs \cup {"backfill"}
        /\ result'.record.status = "skipped"
        /\ result'.record.reason = "not authenticated"
        /\ (result'.job \in Procs =>
              /\ rearm'.calls[result'.job] = 1
              /\ rearm'.last.who = result'.job
              /\ (rearm'.last.outcome # "scheduler is None" =>
                    rearm'.last.interval = DEFAULT_INTERVAL)
              /\ (rearm'.last.outcome = "scheduled" =>
                    PollJobs(jobs') = <<[id |-> POLL_JOB_ID,
                                         due |-> DEFAULT_INTERVAL]>>))
        /\ (result'.job = "backfill" => jobs' = jobs /\ rearm' = rearm)]_vars

\* C13 witness: with no credential a scheduled live poll was skipped and
\* re-armed itself at the 1-unit delay, and a backfill run was skipped after
\* it; nothing was written.
C13_Witness ==
    /\ ~token
    /\ result = [job |-> "backfill", record |-> Skipped]
    /\ rearm.calls["sched"] = 1
    /\ rearm.last = Outcome("sched", "scheduled", DEFAULT_INTERVAL)
    /\ PollJobs(jobs) = <<[id |-> POLL_JOB_ID, due |-> DEFAULT_INTERVAL]>>
    /\ plays = {} /\ reports = <<>>
    /\ cache = [now_playing |-> NoEntry, svg |-> NoEntry,
                last_track |-> NoTrack]

\* The Play documents stored under one (track_id, played_at_rounded) key.
SameKey(docs, track_id, rounded) ==
    {d \in docs : d.track_id = track_id /\ d.played_at_rounded = rounded}

PastInsert == {"sync_artists", "sync_album", "set_marker"}

C15_DelayByRequestsMade ==
    [][/\ \A r \in 0..3 :
            next_interval(r) = (IF r > 1 THEN BUSY_INTERVAL
                                ELSE DEFAULT_INTERVAL)
       /\ \A p \in Procs :
            Returns(p) /\ rearm'.last.outcome # "scheduler is None" =>
                /\ rearm'.last.who = p
                /\ rearm'.last.interval \in {DEFAULT_INTERVAL, BUSY_INTERVAL}
                /\ (rearm'.last.interval = BUSY_INTERVAL
                      <=> local[p].requests_made > 1)
                /\ (result'.record \in {Skipped, TimedOut, NothingPlaying,
                                        Playing(FALSE)} =>
                      rearm'.last.interval = DEFAULT_INTERVAL)
                /\ (rearm'.last.interval = BUSY_INTERVAL =>
                      /\ pc[p] \in {"sync_album", "set_marker"}
                      /\ local[p].is_new_track
                      /\ local[p].play.track_id # NoTrack
                      /\ tracks[local[p].play.track_id].listen_count >= 1)
                /\ (rearm'.last.outcome = "scheduled" =>
                      PollJobs(jobs') = <<[id |-> POLL_JOB_ID,
                                           due |-> rearm'.last.interval]>>)]_vars

\* C15 witness: a cycle recorded a new track whose enrichment synced
\* something, returned its record and re-armed at the 2-unit delay.
C15_Witness ==
    /\ result.job \in Procs
    /\ result.record = Playing(TRUE)
    /\ rearm.last = Outcome(result.job, "scheduled", BUSY_INTERVAL)
    /\ PollJobs(jobs) = <<[id |-> POLL_JOB_ID, due |-> BUSY_INTERVAL]>>

\* C16 as stated: a snapshot cached for a track of duration 200000 has TTL 60
\* when the progress is 170000 and TTL 190 when the progress is 10000.
C16_TtlAsStated ==
    cache.now_playing # NoEntry => cache.now_playing.ttl \in {60, 190}

\* C16 amended: the TTL of a live poll where something is playing is the
\* remaining time in whole seconds plus 30, and 60 when that is less: never
\* below 60, 60 for duration 200000 and progress 170000, and 220 (190 s
\* remaining plus the buffer) for duration 200000 and progress 10000; the
\* step that stores the rendered payload stores it with the track and the
\* TTL of the snapshot.
C16_TtlRemainingPlusBuffer ==
    [][/\ ttl_seconds(200000, 170000) = 60
       /\ ttl_seconds(200000, 10000) = 220
       /\ ttl_seconds(200000, 169000) = 61
       /\ ttl_seconds(200000, 169001) = 60
       /\ ttl_seconds(200000, 200000) = 60
       /\ \A d \in {0, 30000, 200000}, g \in {0, 500, 10000, 29999, 170000} :
            LET ttl == ttl_seconds(d, g) IN
            /\ ttl >= 60
            /\ ttl * 1000 >= (d - g) + 29001
            /\ (ttl > 60 => ttl * 1000 <= (d - g) + 30000)
       /\ (cache'.now_playing # NoEntry =>
              cache'.now_playing.ttl \in {60, 220})
       /\ (cache'.svg # cache.svg /\ cache'.svg # NoEntry =>
              /\ cache'.svg = cache'.now_playing
              /\ cache'.svg.ttl \in {60, 220}
              /\ \E p \in Procs : pc[p] = "query")]_vars

\* C16 witness: a poll at progress 10000 of 200000 has stored the snapshot
\* and the payload, both with TTL 220.
C16_Witness ==
    /\ cache.now_playing = [track |-> "A", ttl |-> 220]
    /\ cache.svg = cache.now_playing
    /\ reports # <<>>

\* C17: from every reachable store, upserting a play (alone or as a bulk
\* write of one) onto the Play document stored under its key leaves every
\* optional field the play does not carry, or carries as null, as it is
\* stored, and sets exactly the optional fields the play carries a value for;
\* a play with no stored document is inserted with the fields it carries.
C17_OptionalFieldsKept ==
    \A play \in PlayArgs(UpsertInputs) :
        LET key == RoundToMinute(play.played_at)
            old == SameKey(plays, play.track_id, key)
            new == SameKey(upsert_play(plays, play), play.track_id, key)
        IN
        /\ upsert_plays(plays, <<play>>) = upsert_play(plays, play)
        /\ Cardinality(new) = 1
        /\ \A d2 \in new, f \in OptFields :
              /\ (old = {} => d2.opts[f] = play.opts[f])
              /\ \A d \in old :
                    d2.opts[f] = (IF play.opts[f] = NoValue THEN d.opts[f]
                                  ELSE play.opts[f])

\* C17 witness: a play without optional fields was upserted onto a stored
\* Play document, which still holds the device it was first seen on.
C17_Witness ==
    /\ result.job = "upsert_play"
    /\ result.record = Upserted(0, 1)
    /\ result.play.opts = NoOpts
    /\ \E d \in plays :
          /\ d.track_id = result.play.track_id
          /\ d.played_at = result.play.played_at
          /\ d.opts["device_name"] = "phone"
          /\ d.opts["device_type"] = "Smartphone"

\* How often the reported track identifier changed to the track t.
TransitionsTo(rs, t) ==
    Cardinality({i \in 1..Len(rs) :
        rs[i].track = t /\ (i = 1 \/ rs[i - 1].track # t)})

\* C18 as stated (its second half): when nothing fails but the enrichment, no
\* listen is counted again by a later cycle, so the listen_count of a track
\* never exceeds the number of times the reported track changed to it.
C18_NoRecountAfterEnrichmentFailure ==
    \A t \in Tracks : tracks[t].listen_count <= TransitionsTo(reports, t)

\* The cycle of p compares the track it was answered with the marker in this
\* step: it goes on to record a new listen or returns as a same-track cycle.
Classifies(p) ==
    /\ pc[p] = "query"
    /\ Len(reports') = Len(reports) + 1
    /\ reports'[Len(reports')].track # NoTrack
    /\ \/ pc'[p] = "upsert_track"
       \/ Returns(p) /\ result'.record = Playing(FALSE)

ClassifiedNew(p) == pc'[p] = "upsert_track"

\* The classification against the marker, and the frame of a same-track
\* cycle.
ClassifiedAgainstMarker(p) ==
    Classifies(p) =>
        /\ ClassifiedNew(p) <=>
              (cache.last_track = NoTrack
               \/ reports'[Len(reports')].track # cache.last_track)
        /\ (ClassifiedNew(p) =>
              local'[p].play.track_id = reports'[Len(reports')].track)
        /\ (~ClassifiedNew(p) =>
              /\ Returns(p)
              /\ result'.record.playing /\ ~result'.record.new_listen
              /\ plays' = plays /\ tracks' = tracks
              /\ cache'.last_track = cache.last_track)

Paused(rs, c, at) ==
    /\ rs # <<>>
    /\ rs[Len(rs)].track = NoTrack
    /\ c.last_track = NoTrack
    /\ \A q \in Procs : at[q] \in {"idle", "query"}

C20_RaceCountsOnce ==
    /\ Len(reports) = 2
    /\ reports[1].track = "A" /\ reports[2].track = "A"
    /\ \A p \in Procs :
          /\ pc[p] \in PastInsert
          /\ local[p].play.track_id = "A"
    /\ cache.last_track = NoTrack
    => tracks["A"].listen_count = 1

\* C21: with a scheduler set, whenever the poll job slot is empty (the job
\* fired, the re-arm failed, or the job was dropped), a poll job is
\* eventually scheduled again; and as long as invocations are left in the
\* run, a further live-poll cycle eventually begins.
C21_PollerRevives ==
    /\ (scheduler /\ PollJobs(jobs) = <<>>) ~> (PollJobs(jobs) # <<>>)
    /\ \A k \in 0..(MaxCycles - 1) :
          (scheduler /\ cycles = k) ~> (cycles > k)

\* C21 witness: the re-arm of a finished cycle failed, the slot is empty and
\* no cycle is under way: only the watchdog can bring the poller back.
C21_Witness ==
    /\ scheduler
    /\ pc["sched"] = "idle"
    /\ result.job = "sched"
    /\ rearm.last.who = "sched"
    /\ rearm.last.outcome = "add_job failed"
    /\ PollJobs(jobs) = <<>>
    /\ cycles >= 1 /\ cycles < MaxCycles


\* C22: at most one poll job is pending under the id poll_current_playback
\* in every state, and a cycle (scheduled or manually triggered) whose
\* re-arm is accepted leaves exactly one pending job, due 1 or 2 units
\* after the cycle ended, whether or not a job was pending before: the
\* pending job is replaced, not joined by a second one.
C22_SingleSlot ==
    [][/\ Len(jobs) <= 1
       /\ Len(PollJobs(jobs')) <= 1
       /\ jobs' = PollJobs(jobs')
       /\ \A p \in Procs :
             Returns(p) /\ rearm'.last.outcome = "scheduled"
                => /\ rearm'.last.who = p
                   /\ rearm'.last.interval \in {DEFAULT_INTERVAL, BUSY_INTERVAL}
                   /\ jobs' = <<[id |-> POLL_JOB_ID,
                                 due |-> rearm'.last.interval]>>
      ]_vars

\* C22 witness: the manually triggered cycle was the only cycle of the run,
\* it made a request and its re-arm was accepted while the scheduled poller
\* was idle: the one pending job is due 2 units after the manual cycle ended.
C22_Witness ==
    /\ scheduler
    /\ cycles = 1
    /\ result.job = "manual"
    /\ pc = [p \in Procs |-> "idle"]
    /\ rearm.last = Outcome("manual", "scheduled", BUSY_INTERVAL)
    /\ jobs = <<[id |-> POLL_JOB_ID, due |-> BUSY_INTERVAL]>>


====
